---- MODULE Spec2Model ----
(***************************************************************************)
(* Frame pipelines of the CGI-Animation-And-Art scripts.                   *)
(*                                                                         *)
(* Every script is a stand-alone program: constants, a driving loop that   *)
(* updates a simulation and writes one numbered PNG per frame.  One run    *)
(* of one script is one behaviour: Init picks the script and its           *)
(* environment (input image, accelerator, encoder), the actions are the    *)
(* steps of that script's main program.  The file system is the log        *)
(* `writes` of completed image saves.                                      *)
(***************************************************************************)
EXTENDS Integers, Sequences, FiniteSets, TLC

VARIABLES
    script,        \* the script this run executes
    pc,            \* position of the main program
    i,             \* loop variable of the driving loop
    frame_idx,     \* separate frame counter (frame_idx / frame_count)
    writes,        \* completed image saves, in order: [idx, name, grain]
    console,       \* kinds of message printed so far
    exitCode,      \* -1 while running, then the process exit status
    encoderCalls,  \* number of subprocess.run(ffmpeg) invocations
    input,         \* state of the required input image
    accel,         \* TRUE when cupy can be imported
    encoder,       \* how the ffmpeg subprocess would end
    failed,        \* frame indices whose computation or save raised
    solver,        \* logic_garden_v12: the MazeSolver object
    sieve,         \* logic_garden_v16: the PrimeSieve object and its generator
    loop,          \* logic_garden_v16: locals of the driving loop (step, hold, stop)
    pool,          \* fractals6, void_safety_protocol: the worker pool
    vram,          \* TRUE when cp.get_default_memory_pool() succeeded (mempool is bound)
    outDir,        \* the output directory: 0 absent, else creations performed on it (at most 2 counted)
    sim,           \* the simulation object of the other logic_garden scripts
    calls,         \* update / render calls made so far in the current loop iteration
    replay         \* renders of one state and frame index repeated for comparison

envVars  == <<input, accel, encoder, vram>>
mainVars == <<script, pc, i, frame_idx, writes, console, exitCode, encoderCalls, failed>>
simVars  == <<solver, sieve, loop>>
objVars  == <<sim, replay>>


-----------------------------------------------------------------------------
(* Bounds of the model: frame counts are scaled down.                      *)

\* gravity_well_manifest.TOTAL_FRAMES (240 in the source)
WellFrames == 3
\* void_tunnel_v3.STEPS (600 in the source)
TunnelSteps == 6
\* gpu_entropic_v3.TOTAL_FRAMES (900 in the source)
EntropicFrames == 3
\* ab_twist_manifest.STEPS (500 in the source)
TwistSteps == 6

(* Program constants.                                                      *)
FRAMES_SKIP == 2
\* fractals6.FRAMES, the longest frame sequence of the corpus
FRAMES == 4800

-----------------------------------------------------------------------------
(* f"{n:04d}": decimal digits, left-padded with zeros to at least 4.       *)

RECURSIVE DecDigits(_)
DecDigits(n) == IF n < 10 THEN <<n>> ELSE Append(DecDigits(n \div 10), n % 10)

ZeroPad(s, w) ==
    IF Len(s) >= w THEN s
    ELSE [k \in 1..w |-> IF k <= w - Len(s) THEN 0 ELSE s[k - (w - Len(s))]]

\* f"{n:03d}", the width of the progress print of gpu_entropic_v3
Fmt03d(n) == ZeroPad(DecDigits(n), 3)

Fmt04d(n) == ZeroPad(DecDigits(n), 4)

Prefix(s) ==
    CASE s = "gravity_well_manifest" -> "render_sequence/frame_"
      [] s = "void_tunnel_v3"        -> "majestic_frames/frame_"
      [] s = "gpu_entropic_v3"       -> "ikb_entropic_void_v3/frame_"
      [] s = "ab_twist_manifest"     -> "ab_twist_frames/twist_"
      [] s = "logic_garden_v18"      -> "logic_garden_alchemy_frames/alchemy_"
      [] s = "logic_garden_v20"      -> "logic_garden_star_frames/star_"
      [] s = "logic_garden_v25"      -> "logic_garden_crypto_frames/crypto_"
      [] s = "logic_garden_v3"       -> "logic_garden_galton_frames/galton_"
      [] s = "logic_garden_v4"       -> "logic_garden_life_frames/life_"
      [] s = "logic_garden_v40"      -> "logic_garden_pulsar_frames/pulsar_"
      [] s = "logic_garden_v12"      -> "logic_garden_maze_frames/maze_"
      [] s = "logic_garden_v13"      -> "logic_garden_sort_frames/sort_"
      [] s = "logic_garden_v39"      -> "logic_garden_supernova_frames/supernova_"
      [] s = "logic_garden_v16"      -> "logic_garden_sieve_frames/sieve_"
      [] s = "fractals6"             -> "fractal_frames/frame_"
      [] s = "void_safety_protocol"  -> "void_safe_render/frame_"

FrameName(s, idx) == [prefix |-> Prefix(s), suffix |-> Fmt04d(idx)]

\* one completed img.save / plt.savefig
Saved(idx, g) == Append(writes, [idx |-> idx, name |-> FrameName(script, idx), grain |-> g])

Files == {writes[k].name : k \in DOMAIN writes}

NoGrain == <<>>

\* an unhandled exception: traceback on stderr, exit status 1
Crash(at) ==
    /\ pc' = "crashed"
    /\ console' = console \cup {"traceback"}
    /\ exitCode' = 1
    /\ failed' = failed \cup at

\* an unhandled exception of the named kind raised outside a frame's save
Raise(kind) ==
    /\ pc' = "crashed"
    /\ console' = console \cup {"traceback", kind}
    /\ exitCode' = 1
    /\ failed' = failed

-----------------------------------------------------------------------------
(* The output directory.                                                   *)

\* os.makedirs(path, exist_ok=...): what the call does when the directory
\* is in state d
Makedirs(d, exist_ok) == IF d > 0 /\ ~exist_ok THEN "FileExistsError" ELSE "ok"

\* `if not os.path.exists(directory): os.makedirs(directory)` with the test left out
EnsureDirUnchecked(d) == Makedirs(d, FALSE)

\* ensure_dir: `if not os.path.exists(directory): os.makedirs(directory)`
EnsureDir(d) == IF d = 0 THEN Makedirs(d, FALSE) ELSE "ok"

\* the directory after one more successful creation step
Created(d) == IF d < 2 THEN d + 1 ELSE d

-----------------------------------------------------------------------------
(* gravity_well_manifest.main                                              *)

\* the same with the sys.exit(1) of the handler left out
WellOpenInputNoExit ==
    /\ script = "gravity_well_manifest" /\ pc = "start"
    /\ pc' = "loop"
    /\ outDir' = Created(outDir)
    /\ console' = console \cup {IF input = "ok" THEN "signal_acquired" ELSE "input_not_found"}
    /\ UNCHANGED <<script, calls, objVars, i, frame_idx, writes, exitCode, encoderCalls, failed,
                   envVars, simVars, pool>>

WellOpenInput ==
    /\ script = "gravity_well_manifest" /\ pc = "start"
    /\ IF EnsureDir(outDir) # "ok"
       THEN \* ensure_dir(OUTPUT_DIR) raised
            Raise(EnsureDir(outDir)) /\ UNCHANGED outDir
       ELSE /\ outDir' = Created(outDir)
            /\ CASE input = "ok" ->
                      /\ pc' = "loop"
                      /\ console' = console \cup {"signal_acquired"}
                      /\ UNCHANGED <<exitCode, failed>>
                 [] input = "missing" ->
                      \* except FileNotFoundError: print, sys.exit(1)
                      /\ pc' = "exited"
                      /\ console' = console \cup {"input_not_found"}
                      /\ exitCode' = 1
                      /\ UNCHANGED failed
                 [] input = "corrupt" ->
                      \* UnidentifiedImageError / OSError is not caught
                      Crash({})
    /\ UNCHANGED <<script, calls, objVars, i, frame_idx, writes, encoderCalls, envVars, simVars, pool>>

WellFrame ==
    /\ script = "gravity_well_manifest" /\ pc = "loop" /\ i < WellFrames
    /\ \E ok \in BOOLEAN :
         IF ok THEN /\ writes' = Saved(i, NoGrain)
                    /\ i' = i + 1
                    /\ console' = console \cup {"progress"}
                    /\ UNCHANGED <<pc, exitCode, failed>>
               ELSE /\ Crash({i})
                    /\ UNCHANGED <<i, writes>>
    /\ UNCHANGED <<script, outDir, calls, objVars, frame_idx, encoderCalls, envVars, simVars, pool>>

WellFinish ==
    /\ script = "gravity_well_manifest" /\ pc = "loop" /\ i = WellFrames
    /\ pc' = "done" /\ exitCode' = 0
    /\ console' = console \cup {"sequence_complete"}
    /\ UNCHANGED <<script, outDir, calls, objVars, i, frame_idx, writes, encoderCalls, failed, envVars, simVars, pool>>

-----------------------------------------------------------------------------
(* void_tunnel_v3                                                          *)

\* the literal 20 of `frame_id % 20 == 0`: interval of the memory-pool sweep
SWEEP_EVERY == 20

\* the import block with the notice of the except branch left out
TunnelImportNoNotice ==
    /\ script = "void_tunnel_v3" /\ pc = "start"
    /\ pc' = "loop"
    /\ console' = IF accel /\ vram THEN console \cup {"gpu_detected"} ELSE console
    /\ UNCHANGED <<script, outDir, calls, objVars, i, frame_idx, writes, exitCode, encoderCalls, failed, envVars, simVars, pool>>

\* the import block: the detection message is printed inside the inner try,
\* after mempool is bound; a failure there is passed over in silence
TunnelImport ==
    /\ script = "void_tunnel_v3" /\ pc = "start"
    /\ pc' = "loop"
    /\ console' = IF ~accel THEN console \cup {"cpu_mode_notice"}
                  ELSE IF vram THEN console \cup {"gpu_detected"}
                  ELSE console
    /\ UNCHANGED <<script, outDir, calls, objVars, i, frame_idx, writes, exitCode, encoderCalls, failed, envVars, simVars, pool>>

\* one pass of the for loop: split-step physics, then export every
\* FRAMES_SKIP-th state under the independent frame counter
TunnelStep ==
    /\ script = "void_tunnel_v3" /\ pc = "loop" /\ i < TunnelSteps
    /\ IF i % FRAMES_SKIP = 0
       THEN /\ outDir' = Created(outDir)
            /\ \E ok \in BOOLEAN :
                 IF ~ok
                 THEN /\ Crash({frame_idx})
                      /\ UNCHANGED <<i, frame_idx, writes>>
                 ELSE IF frame_idx % SWEEP_EVERY = 0 /\ accel /\ ~vram
                 THEN \* mempool.free_all_blocks() with the name mempool never bound
                      /\ writes' = Saved(frame_idx, NoGrain)
                      /\ Raise("NameError")
                      /\ UNCHANGED <<i, frame_idx>>
                 ELSE /\ writes' = Saved(frame_idx, NoGrain)
                      /\ frame_idx' = frame_idx + 1
                      /\ i' = i + 1
                      /\ console' = console \cup {"progress"}
                      /\ UNCHANGED <<pc, exitCode, failed>>
       ELSE /\ i' = i + 1
            /\ UNCHANGED <<outDir, pc, frame_idx, writes, console, exitCode, failed>>
    /\ UNCHANGED <<script, calls, objVars, encoderCalls, envVars, simVars, pool>>

TunnelFinish ==
    /\ script = "void_tunnel_v3" /\ pc = "loop" /\ i = TunnelSteps
    /\ pc' = "done" /\ exitCode' = 0
    /\ console' = console \cup {"completed"}
    /\ UNCHANGED <<script, outDir, calls, objVars, i, frame_idx, writes, encoderCalls, failed, envVars, simVars, pool>>

-----------------------------------------------------------------------------
(* ab_twist_manifest                                                       *)

\* the import block: the pool is only woken up, the message follows in
\* either case
TwistImport ==
    /\ script = "ab_twist_manifest" /\ pc = "start"
    /\ pc' = "loop"
    /\ console' = console \cup {IF accel THEN "gpu_detected" ELSE "cpu_mode_notice"}
    /\ UNCHANGED <<script, outDir, calls, objVars, i, frame_idx, writes, exitCode, encoderCalls, failed, envVars, simVars, pool>>

\* one pass of the for loop: evolution, then render_phase_twist for every
\* FRAMES_SKIP-th state
TwistStep ==
    /\ script = "ab_twist_manifest" /\ pc = "loop" /\ i < TwistSteps
    /\ IF i % FRAMES_SKIP = 0
       THEN /\ outDir' = Created(outDir)
            /\ \E ok \in BOOLEAN :
                 IF ~ok
                 THEN /\ Crash({frame_idx})
                      /\ UNCHANGED <<i, frame_idx, writes>>
                 ELSE IF frame_idx % SWEEP_EVERY = 0 /\ accel /\ ~vram
                 THEN \* cp.get_default_memory_pool() raises again
                      /\ writes' = Saved(frame_idx, NoGrain)
                      /\ Raise("cupy_error")
                      /\ UNCHANGED <<i, frame_idx>>
                 ELSE /\ writes' = Saved(frame_idx, NoGrain)
                      /\ frame_idx' = frame_idx + 1
                      /\ i' = i + 1
                      /\ console' = console \cup {"progress"}
                      /\ UNCHANGED <<pc, exitCode, failed>>
       ELSE /\ i' = i + 1
            /\ UNCHANGED <<outDir, pc, frame_idx, writes, console, exitCode, failed>>
    /\ UNCHANGED <<script, calls, objVars, encoderCalls, envVars, simVars, pool>>

TwistFinish ==
    /\ script = "ab_twist_manifest" /\ pc = "loop" /\ i = TwistSteps
    /\ pc' = "done" /\ exitCode' = 0
    /\ console' = console \cup {"completed"}
    /\ UNCHANGED <<script, outDir, calls, objVars, i, frame_idx, writes, encoderCalls, failed, envVars, simVars, pool>>

-----------------------------------------------------------------------------
(* gpu_entropic_v3                                                         *)

EntropicImport ==
    /\ script = "gpu_entropic_v3" /\ pc = "start"
    /\ IF ~accel
       THEN \* except ImportError: raise ImportError("CupY missing")
            Crash({}) /\ UNCHANGED outDir
       ELSE IF EnsureDir(outDir) # "ok"
       THEN Raise(EnsureDir(outDir)) /\ UNCHANGED outDir
       ELSE /\ pc' = "loop"
            /\ outDir' = Created(outDir)
            /\ console' = console \cup {"starting"}
            /\ UNCHANGED <<exitCode, failed>>
    /\ UNCHANGED <<script, calls, objVars, i, frame_idx, writes, encoderCalls, envVars, simVars, pool>>

EntropicFrame ==
    /\ script = "gpu_entropic_v3" /\ pc = "loop" /\ i < EntropicFrames
    /\ \E ok \in BOOLEAN :
         IF ok THEN /\ writes' = Saved(i, NoGrain)
                    /\ i' = i + 1
                    /\ console' = console \cup {"progress"}
                    /\ UNCHANGED <<pc, exitCode, failed>>
               ELSE /\ Crash({i})
                    /\ UNCHANGED <<i, writes>>
    /\ UNCHANGED <<script, outDir, calls, objVars, frame_idx, encoderCalls, envVars, simVars, pool>>

\* subprocess.run([...ffmpeg...], check=True) after the loop
EntropicEncode ==
    /\ script = "gpu_entropic_v3" /\ pc = "loop" /\ i = EntropicFrames
    /\ encoderCalls' = encoderCalls + 1
    /\ IF encoder = "ok"
       THEN /\ pc' = "done" /\ exitCode' = 0
            /\ UNCHANGED <<console, failed>>
       ELSE \* CalledProcessError or FileNotFoundError propagates
            Crash({})
    /\ UNCHANGED <<script, outDir, calls, objVars, i, frame_idx, writes, envVars, simVars, pool>>

-----------------------------------------------------------------------------
(* logic_garden_v12: MazeSolver (breadth-first flood of a walled grid)     *)

\* COLS, ROWS = 32, 18 in the source; scaled down
COLS == 5
ROWS == 3
\* at most this many cells of the random noise fall below WALL_DENSITY
MaxWalls == 3
\* MAX_FRAMES = 600 in the source; scaled down
V12_MAX_FRAMES == 14
\* the literal 500 of the hard stop `solver.finished and i > 500`; scaled down
V12_HARD_STOP == 10

START_POS == <<1, 1>>
END_POS   == <<COLS - 2, ROWS - 2>>
None      == <<>>

Cells == (0..(COLS - 1)) \X (0..(ROWS - 1))

RECURSIVE WallSets(_)
WallSets(k) ==
    IF k = 0 THEN {{}}
    ELSE LET prev == WallSets(k - 1)
         IN  prev \cup {w \cup {c} : w \in prev, c \in Cells \ {START_POS, END_POS}}

\* MazeSolver.__init__ for one outcome of the wall noise
NewSolver(walls) ==
    [ grid         |-> [c \in Cells |-> IF c \in walls THEN 1 ELSE 0],
      queue        |-> <<START_POS>>,
      came_from    |-> (START_POS :> None),
      visited      |-> {START_POS},
      finished     |-> FALSE,
      path         |-> <<>>,
      frontier_set |-> {START_POS} ]

\* MazeSolver.reconstruct_path: backtrack from END_POS, then reverse
RECURSIVE BackTrack(_, _)
BackTrack(came_from, current) ==
    IF current = None THEN <<>>
    ELSE Append(BackTrack(came_from,
                          IF current \in DOMAIN came_from THEN came_from[current] ELSE None),
                current)

\* the first neighbour taken diagonally
NeighborsDiagonal(c) == << <<c[1] + 1, c[2] + 1>>, <<c[1] - 1, c[2]>>,
                           <<c[1], c[2] + 1>>, <<c[1], c[2] - 1>> >>

\* neighbors = [(cx+1, cy), (cx-1, cy), (cx, cy+1), (cx, cy-1)]
Neighbors(c) == << <<c[1] + 1, c[2]>>, <<c[1] - 1, c[2]>>,
                   <<c[1], c[2] + 1>>, <<c[1], c[2] - 1>> >>

\* MazeSolver.update
Update(s) ==
    IF s.finished THEN s
    ELSE IF s.queue = <<>> THEN [s EXCEPT !.finished = TRUE]
    ELSE
      LET current == Head(s.queue)
          popped  == [s EXCEPT !.queue = Tail(s.queue),
                               !.frontier_set = @ \ {current}]
      IN  IF current = END_POS
          THEN [popped EXCEPT !.finished = TRUE,
                              !.path = s.path \o BackTrack(s.came_from, END_POS)]
          ELSE
            LET Open(n) == /\ n \in Cells
                           /\ s.grid[n] = 0
                           /\ n \notin s.visited
                fresh == SelectSeq(Neighbors(current), Open)
                new   == {fresh[k] : k \in DOMAIN fresh}
            IN  [popped EXCEPT
                   !.queue = @ \o fresh,
                   !.visited = @ \cup new,
                   !.came_from = [c \in DOMAIN s.came_from \cup new |->
                                     IF c \in new THEN current ELSE s.came_from[c]],
                   !.frontier_set = @ \cup new]

\* the condition of the `break` that ends the frame loop early
HardStopNoBreak(s, n) == FALSE

HardStopEager(s, n) == s.finished

HardStop(s, n) == s.finished /\ n > V12_HARD_STOP

\* top of the loop body: canvas, then solver.render(i, ax) (draws, changes nothing)
MazeRender ==
    /\ script = "logic_garden_v12" /\ pc = "render"
    /\ pc' = "update1"
    /\ calls' = <<"render">>
    /\ UNCHANGED <<script, outDir, objVars, i, frame_idx, writes, console, exitCode, encoderCalls, failed,
                   envVars, simVars, pool>>

\* one solver.update() call per frame instead of two
MazeUpdateOnce ==
    /\ script = "logic_garden_v12" /\ pc \in {"update1", "update2"}
    /\ solver' = Update(solver)
    /\ pc' = "save"
    /\ calls' = Append(calls, "update")
    /\ UNCHANGED <<script, outDir, objVars, i, frame_idx, writes, console, exitCode, encoderCalls, failed,
                   envVars, sieve, loop, pool>>

\* the two solver.update() calls of one frame
MazeUpdate ==
    /\ script = "logic_garden_v12" /\ pc \in {"update1", "update2"}
    /\ solver' = Update(solver)
    /\ pc' = IF pc = "update1" THEN "update2" ELSE "save"
    /\ calls' = Append(calls, "update")
    /\ UNCHANGED <<script, outDir, objVars, i, frame_idx, writes, console, exitCode, encoderCalls, failed,
                   envVars, sieve, loop, pool>>

\* plt.savefig, progress print, hard stop, next i
MazeSave ==
    /\ script = "logic_garden_v12" /\ pc = "save"
    /\ outDir' = Created(outDir)
    /\ \E ok \in BOOLEAN :
         IF ok
         THEN /\ writes' = Saved(i, NoGrain)
              /\ console' = IF i % 50 = 0 THEN console \cup {"progress"} ELSE console
              /\ IF HardStop(solver, i) \/ i + 1 = V12_MAX_FRAMES
                 THEN pc' = "done" /\ exitCode' = 0 /\ i' = i
                 ELSE pc' = "render" /\ exitCode' = exitCode /\ i' = i + 1
              /\ UNCHANGED failed
         ELSE /\ Crash({i})
              /\ UNCHANGED <<i, writes>>
    /\ UNCHANGED <<script, calls, objVars, frame_idx, encoderCalls, envVars, simVars, pool>>

-----------------------------------------------------------------------------
(* logic_garden_v16: PrimeSieve and the generator-driven frame loop        *)

GRID_SIZE == 10
V16_FPS == 30
V16_DURATION == 20
V16_TOTAL_FRAMES == V16_FPS * V16_DURATION

Limit == GRID_SIZE * GRID_SIZE

\* int(np.sqrt(n))
RECURSIVE ISqrtFrom(_, _)
ISqrtFrom(n, r) == IF (r + 1) * (r + 1) > n THEN r ELSE ISqrtFrom(n, r + 1)
\* the outer loop stopping at half the root
ISqrtHalf(n) == ISqrtFrom(n, 0) \div 2
ISqrt(n) == ISqrtFrom(n, 0)

\* PrimeSieve.__init__ with the generator object created but not started
NewSieve ==
    [ status |-> [n \in 0..Limit |-> IF n = 1 THEN 2 ELSE 0],
      at     |-> [loc |-> "start", i |-> 0, j |-> 0] ]

StopIteration == [action |-> "StopIteration", current |-> 0]

\* PrimeSieve.run_algorithm resumed at `at`: runs to the next yield.
\* Result: the status array, the point to resume from, the yielded step.
RECURSIVE RunAlgorithm(_, _)
RunAlgorithm(status, at) ==
    CASE at.loc = "start" ->
           [status |-> status, at |-> [loc |-> "outer", i |-> 2, j |-> 0],
            step |-> [action |-> "eliminate", current |-> 1]]
      [] at.loc = "outer" ->
           IF at.i >= ISqrt(Limit) + 1
           THEN RunAlgorithm(status, [loc |-> "late", i |-> 2, j |-> 0])
           ELSE IF status[at.i] = 0
           THEN [status |-> [status EXCEPT ![at.i] = 1],
                 at |-> [loc |-> "inner", i |-> at.i, j |-> at.i * at.i],
                 step |-> [action |-> "found_prime", current |-> at.i]]
           ELSE RunAlgorithm(status, [at EXCEPT !.i = @ + 1])
      [] at.loc = "inner" ->
           IF at.j >= Limit + 1
           THEN RunAlgorithm(status, [loc |-> "outer", i |-> at.i + 1, j |-> 0])
           ELSE IF status[at.j] = 0
           THEN [status |-> [status EXCEPT ![at.j] = 2],
                 at |-> [at EXCEPT !.j = @ + at.i],
                 step |-> [action |-> "eliminate", current |-> at.j]]
           ELSE RunAlgorithm(status, [at EXCEPT !.j = @ + at.i])
      [] at.loc = "late" ->
           IF at.i >= Limit + 1
           THEN [status |-> status, at |-> [loc |-> "exhausted", i |-> 0, j |-> 0],
                 step |-> [action |-> "finished", current |-> 0]]
           ELSE IF status[at.i] = 0
           THEN [status |-> [status EXCEPT ![at.i] = 1],
                 at |-> [at EXCEPT !.i = @ + 1],
                 step |-> [action |-> "found_prime_late", current |-> at.i]]
           ELSE RunAlgorithm(status, [at EXCEPT !.i = @ + 1])
      [] at.loc = "exhausted" ->
           [status |-> status, at |-> at, step |-> StopIteration]

\* frames held per yielded step
Hold(action) ==
    CASE action = "found_prime"      -> 20
      [] action = "eliminate"        -> 2
      [] action = "found_prime_late" -> 2
      [] action = "finished"         -> 60
      [] OTHER                       -> 1

NewLoop == [step |-> StopIteration, hold |-> 0, stop |-> FALSE]

\* `while not stop: step = next(gen)` and the choice of hold
SieveNext ==
    /\ script = "logic_garden_v16" /\ pc = "next" /\ ~loop.stop
    /\ LET r == RunAlgorithm(sieve.status, sieve.at)
       IN  /\ sieve' = [status |-> r.status, at |-> r.at]
           /\ IF r.step = StopIteration
              THEN \* except StopIteration: stop = True
                   /\ loop' = [loop EXCEPT !.stop = TRUE]
                   /\ pc' = "next"
              ELSE /\ loop' = [step |-> r.step, hold |-> Hold(r.step.action),
                               stop |-> (r.step.action = "finished")]
                   /\ pc' = "hold"
    /\ UNCHANGED <<script, outDir, calls, objVars, i, frame_idx, writes, console, exitCode, encoderCalls, failed,
                   envVars, solver, pool>>

\* one pass of `for _ in range(hold)`: render, savefig, frame_idx += 1
SieveFrame ==
    /\ script = "logic_garden_v16" /\ pc = "hold" /\ loop.hold > 0
    /\ outDir' = Created(outDir)
    /\ \E ok \in BOOLEAN :
         IF ok
         THEN /\ writes' = Saved(frame_idx, NoGrain)
              /\ frame_idx' = frame_idx + 1
              /\ loop' = [loop EXCEPT !.hold = @ - 1]
              /\ pc' = IF loop.hold = 1 THEN "next" ELSE "hold"
              /\ UNCHANGED <<console, exitCode, failed>>
         ELSE /\ Crash({frame_idx})
              /\ UNCHANGED <<frame_idx, writes, loop>>
    /\ UNCHANGED <<script, calls, objVars, i, encoderCalls, envVars, solver, sieve, pool>>

\* the while loop ends: print(f"Total Frames: {frame_idx}")
SieveFinish ==
    /\ script = "logic_garden_v16" /\ pc = "next" /\ loop.stop
    /\ pc' = "done" /\ exitCode' = 0
    /\ console' = console \cup {"total_frames"}
    /\ UNCHANGED <<script, outDir, calls, objVars, i, frame_idx, writes, encoderCalls, failed, envVars, simVars, pool>>

-----------------------------------------------------------------------------
(* fractals6 and void_safety_protocol: multiprocessing.Pool.imap_unordered *)

\* fractals6.FRAMES (4800 in the source)
FractalFrames == 3
\* fractals6: max(1, multiprocessing.cpu_count() - 1) of the machine
FractalWorkers == 2
\* void_safety_protocol: FPS * DURATION_SEC (300 in the source)
VoidTotalFrames == 3
\* void_safety_protocol: VOID_CONFIG["CORES"]
CORES == 2
\* distinct states the numpy global generator of a worker process can start in
RngSeeds == 2

PoolScripts == {"fractals6", "void_safety_protocol"}

\* fractals6: tasks.append((i, CENTER_X, CENTER_Y, current_range)), where
\* current_range = INITIAL_RANGE * ZOOM_FACTOR^i is kept as the exponent;
\* void_safety_protocol: jobs = [(i, total_frames, VOID_CONFIG) ...]
Tasks(s) ==
    IF s = "fractals6"
    THEN [k \in 1..FractalFrames |-> [frame_num |-> k - 1, zoom_exp |-> k - 1]]
    ELSE [k \in 1..VoidTotalFrames |-> [frame_num |-> k - 1, total_frames |-> VoidTotalFrames]]

Workers(s) == 1..(IF s = "fractals6" THEN FractalWorkers ELSE CORES)

\* the pool right after `with multiprocessing.Pool(processes=...) as pool`
NewPool(s, seeds) ==
    [ tasks    |-> Tasks(s),
      next     |-> 1,
      busy     |-> [w \in Workers(s) |-> 0],
      rng      |-> [w \in Workers(s) |-> [seed |-> seeds[w], pos |-> 0]],
      results  |-> <<>>,
      consumed |-> 0,
      executed |-> [k \in 1..Len(Tasks(s)) |-> 0],
      alive    |-> TRUE ]

\* main up to the `with` statement: makedirs, task list, pool start
PoolStart ==
    /\ script \in PoolScripts /\ pc = "start"
    /\ LET made == IF script = "fractals6" THEN EnsureDir(outDir)
                   ELSE Makedirs(outDir, TRUE)
       IN  IF made # "ok"
           THEN Raise(made) /\ UNCHANGED outDir
           ELSE /\ pc' = "map"
                /\ outDir' = Created(outDir)
                /\ console' = console \cup {"banner"}
                /\ UNCHANGED <<exitCode, failed>>
    /\ UNCHANGED <<script, calls, objVars, i, frame_idx, writes, encoderCalls,
                   envVars, simVars, pool>>

\* a pool that hands the same task out again
WorkerTakeAgain(w) ==
    /\ script \in PoolScripts /\ pc = "map" /\ pool.alive
    /\ pool.busy[w] = 0
    /\ pool.next <= Len(pool.tasks)
    /\ \E again \in BOOLEAN :
         pool' = [pool EXCEPT !.busy[w] = pool.next,
                              !.next = IF again THEN @ ELSE @ + 1]
    /\ UNCHANGED <<mainVars, outDir, calls, objVars, envVars, simVars>>

\* an idle worker process takes the next task of the list (chunksize 1)
WorkerTake(w) ==
    /\ script \in PoolScripts /\ pc = "map" /\ pool.alive
    /\ pool.busy[w] = 0
    /\ pool.next <= Len(pool.tasks)
    /\ pool' = [pool EXCEPT !.busy[w] = pool.next, !.next = @ + 1]
    /\ UNCHANGED <<mainVars, outDir, calls, objVars, envVars, simVars>>

\* the generator state the grain of a frame is drawn from
GrainSourceShared(w) == 1

GrainSource(w) == w

\* what the worker hands back when the frame raised
\* fractals6.render_frame has no handler: the pool ships the exception;
\* void_safety_protocol.render_frame_safe: except Exception: return f"Error: {e}"
FailureResult(s, task) ==
    IF s = "fractals6"
    THEN [kind |-> "exception", frame_num |-> task.frame_num]
    ELSE [kind |-> "value", frame_num |-> task.frame_num, value |-> "Error"]

\* fractals6.MAX_ITER, also the number of palette entries and, less one,
\* the divisor of t (256, range(256) and 255.0 in the source); scaled down
MAX_ITER == 4

Least(a, b) == IF a < b THEN a ELSE b

\* one pass of the loop of fractals6.create_palette: (r, g, b) of entry idx,
\* with t = idx / (MAX_ITER - 1) and int() of the non-negative products
create_palette(idx) ==
    LET n  == MAX_ITER - 1
        n4 == n * n * n * n
        r  == (9 * (n - idx) * idx * idx * idx * 255) \div n4
        g  == (15 * (n - idx) * (n - idx) * idx * idx * 255) \div n4
        b  == (17 * (n - idx) * (n - idx) * (n - idx) * idx * 255) \div (2 * n4) + 40
    IN  IF idx = MAX_ITER THEN <<0, 0, 0>>
        ELSE <<Least(255, r * 2), Least(255, g * 3), Least(255, b + idx)>>

\* PALETTE = create_palette()
PALETTE == [idx \in 0..(MAX_ITER - 1) |-> create_palette(idx)]

\* points c of the complex plane with whole coordinates, on which the orbit
\* is computed without rounding
Points == {<<0, 0>>, <<-1, 0>>, <<-2, 0>>, <<0, 1>>, <<1, 0>>, <<1, 1>>, <<3, 0>>}

\* Z**2 + C
NextZ(z, c) == <<z[1] * z[1] - z[2] * z[2] + c[1], 2 * z[1] * z[2] + c[2]>>

\* np.abs(Z) > 2
Diverged(z) == z[1] * z[1] + z[2] * z[2] > 4

\* the iteration loop of fractals6.render_frame for one pixel, from pass k
\* on: div_time is the pass in which the orbit leaves the disc, after which
\* the mask keeps the pixel out of the loop, and stays at the 0 it was
\* initialised to when no pass finds it outside
RECURSIVE Iterate(_, _, _)
Iterate(c, z, k) ==
    IF k = MAX_ITER THEN [stable |-> TRUE, div_time |-> 0]
    ELSE IF Diverged(NextZ(z, c)) THEN [stable |-> FALSE, div_time |-> k]
    ELSE Iterate(c, NextZ(z, c), k + 1)

\* no pixel looked at yet
NoPixel == [c |-> <<0, 0>>, stable |-> FALSE, div_time |-> -1, rgb |-> <<>>]

\* img_array = PALETTE[div_time] at the pixel of c
Pixel(c) ==
    LET it == Iterate(c, <<0, 0>>, 0)
    IN  [c |-> c, stable |-> it.stable, div_time |-> it.div_time,
         rgb |-> PALETTE[it.div_time]]

\* a worker runs render_frame / render_frame_safe on its task
WorkerRender(w) ==
    /\ script \in PoolScripts /\ pc = "map" /\ pool.alive
    /\ pool.busy[w] # 0
    /\ LET k    == pool.busy[w]
           task == pool.tasks[k]
           g    == GrainSource(w)
           ran  == [pool EXCEPT !.busy[w] = 0, !.executed[k] = @ + 1]
       IN  \E ok \in BOOLEAN :
             IF ok
             THEN IF script = "fractals6"
                  THEN /\ writes' = Saved(task.frame_num, NoGrain)
                       \* sim keeps one pixel of the frame just saved
                       /\ \E c \in Points : sim' = Pixel(c)
                       /\ pool' = [ran EXCEPT !.results =
                             Append(@, [kind |-> "value", frame_num |-> task.frame_num,
                                        value |-> "complete"])]
                       /\ UNCHANGED failed
                  ELSE \* np.random.normal draws the grain from the process's generator
                       /\ writes' = Saved(task.frame_num, pool.rng[g])
                       /\ pool' = [ran EXCEPT !.rng[g].pos = @ + 1,
                                              !.results =
                             Append(@, [kind |-> "value", frame_num |-> task.frame_num,
                                        value |-> "None"])]
                       /\ UNCHANGED <<failed, sim>>
             ELSE /\ failed' = failed \cup {task.frame_num}
                  /\ UNCHANGED <<writes, sim>>
                  /\ \E drew \in (IF script = "fractals6" THEN {FALSE} ELSE BOOLEAN) :
                       pool' = [ran EXCEPT
                                  !.rng[g].pos = IF drew THEN @ + 1 ELSE @,
                                  !.results = Append(@, FailureResult(script, task))]
    /\ UNCHANGED <<script, outDir, calls, replay, pc, i, frame_idx, console, exitCode, encoderCalls,
                   envVars, simVars>>

\* the main process takes the next finished result off the iterator
MainConsume ==
    /\ script \in PoolScripts /\ pc = "map"
    /\ pool.consumed < Len(pool.results)
    /\ LET r == pool.results[pool.consumed + 1]
       IN  IF r.kind = "exception"
           THEN \* re-raised by next(); leaving `with` terminates the pool
                /\ Crash({})
                /\ pool' = [pool EXCEPT !.consumed = @ + 1, !.alive = FALSE]
           ELSE /\ pool' = [pool EXCEPT !.consumed = @ + 1]
                /\ console' = console \cup
                      (IF script = "fractals6" /\ r.frame_num % 10 # 0
                       THEN {} ELSE {"progress"})
                /\ UNCHANGED <<pc, exitCode, failed>>
    /\ UNCHANGED <<script, outDir, calls, objVars, i, frame_idx, writes, encoderCalls, envVars, simVars>>

\* the iterator is exhausted: leave `with` (pool.terminate()), closing print
PoolExit ==
    /\ script \in PoolScripts /\ pc = "map"
    /\ pool.consumed = Len(pool.tasks)
    /\ pool' = [pool EXCEPT !.alive = FALSE]
    /\ IF script = "fractals6"
       THEN /\ pc' = "done" /\ exitCode' = 0
            /\ console' = console \cup {"sequence_generated"}
       ELSE /\ pc' = "encode" /\ exitCode' = exitCode
            /\ console' = console \cup {"render_complete"}
    /\ UNCHANGED <<script, outDir, calls, objVars, i, frame_idx, writes, encoderCalls, failed, envVars, simVars>>

\* how often compile_video runs ffmpeg when it fails
EncodeAttemptsRetry(outcome) == IF outcome = "ok" THEN 1 ELSE 2

EncodeAttempts(outcome) == 1

\* void_safety_protocol.compile_video
CompileVideo ==
    /\ script = "void_safety_protocol" /\ pc = "encode"
    /\ encoderCalls' = encoderCalls + EncodeAttempts(encoder)
    /\ CASE encoder = "ok" ->
              /\ pc' = "done" /\ exitCode' = 0
              /\ console' = console \cup {"binding", "target_acquired"}
              /\ UNCHANGED failed
         [] encoder = "nonzero" ->
              \* except subprocess.CalledProcessError: print
              /\ pc' = "done" /\ exitCode' = 0
              /\ console' = console \cup {"binding", "ffmpeg_failed"}
              /\ UNCHANGED failed
         [] encoder = "missing_binary" ->
              \* FileNotFoundError is not caught
              Crash({})
    /\ UNCHANGED <<script, outDir, calls, objVars, i, frame_idx, writes, envVars, simVars, pool>>

-----------------------------------------------------------------------------
(* logic_garden_v18, v20, v25: the loop body is canvas, sim.render(i, ax), *)
(* progress print; render draws, creates the directory and saves.          *)

\* FPS * DURATION of logic_garden_v18, v20, v25 and v40
NURSERY_TOTAL_FRAMES == 30 * 20

(* logic_garden_v18: NucleusSim.  The hundred particle positions are kept  *)
(* as the number of random shakes applied to them, a beta particle as the  *)
(* number of velocity steps it has flown; label is "unset" until the       *)
(* first render assigns the attribute.                                     *)

NewNucleus ==
    [ stage    |-> "U-238",
      label    |-> "unset",
      incoming |-> <<"start">>,
      shakes   |-> 0,
      protons  |-> {},
      betas    |-> <<>> ]

\* NucleusSim.render, the state logic of the hardcoded timeline
NucleusTimeline(s, t) ==
    IF t < 100
    THEN [s EXCEPT !.incoming = <<"lerp", t>>, !.label = "Uranium-238"]
    ELSE IF t < 220
    THEN [s EXCEPT !.incoming = <<"docked">>, !.stage = "U-239",
                   !.label = "Uranium-239", !.shakes = @ + 1]
    ELSE IF t < 380
    THEN LET d == IF t = 220
                  THEN [s EXCEPT !.protons = @ \cup {"target1"}, !.betas = Append(@, 0)]
                  ELSE s
         IN  [d EXCEPT !.label = "Neptunium-239",
                       !.betas = IF d.betas = <<>> THEN d.betas
                                 ELSE [d.betas EXCEPT ![1] = @ + 1]]
    ELSE LET d == IF t = 380
                  THEN [s EXCEPT !.protons = @ \cup {"target2"}, !.betas = Append(@, 0)]
                  ELSE s
         IN  [d EXCEPT !.label = "Plutonium-239",
                       !.betas = [k \in DOMAIN d.betas |-> d.betas[k] + 1]]

(* logic_garden_v20: TellerUlam.  t = frame_idx / TOTAL_FRAMES is kept as  *)
(* the frame index, the three levels in units of 1 / (6 * TOTAL_FRAMES).   *)

ONE == 6 * NURSERY_TOTAL_FRAMES

NewTeller == [rad_fill |-> 0, compression |-> 0, ignition |-> 0]

\* TellerUlam.update(t) for t = idx / TOTAL_FRAMES
TellerUpdate(s, idx) ==
    LET T == NURSERY_TOTAL_FRAMES
        Cap(x) == IF x > ONE THEN ONE ELSE x
        a == IF 10 * idx > T /\ 10 * idx < 3 * T
             THEN [s EXCEPT !.rad_fill = Cap(3 * (10 * idx - T))] ELSE s
        b == IF 10 * idx > 3 * T /\ 10 * idx < 6 * T
             THEN [a EXCEPT !.rad_fill = ONE, !.compression = 2 * (10 * idx - 3 * T)]
             ELSE a
    IN  IF 10 * idx > 6 * T
        THEN [b EXCEPT !.compression = ONE, !.ignition = Cap(3 * (10 * idx - 6 * T))]
        ELSE b

\* the rays are drawn whenever the case is flooded
TellerRaysAlways(u, idx, seed) == IF u.rad_fill > 0 THEN <<seed>> ELSE <<>>

\* the ten rays from the primary, end points from np.random.rand(): drawn
\* while rad_fill > 0 and t < 0.4
TellerRays(u, idx, seed) ==
    IF u.rad_fill > 0 /\ 10 * idx < 4 * NURSERY_TOTAL_FRAMES THEN <<seed>> ELSE <<>>

\* TellerUlam.render: self.update(t), then the drawing
TellerRender(s, idx, seed) ==
    LET u == TellerUpdate(s, idx)
    IN  [ state |-> u,
          image |-> [ flood     |-> u.rad_fill,
                      rays      |-> TellerRays(u, idx, seed),
                      flash     |-> (10 * idx > NURSERY_TOTAL_FRAMES),
                      secondary |-> IF u.ignition > 0
                                    THEN <<"star", u.ignition, 10 * u.ignition > ONE>>
                                    ELSE <<"fuel", u.compression>> ] ]

(* logic_garden_v25: CryptoSim.  A letter is kept as its rank in the       *)
(* frequency order, counted from 1; solved_letters maps cipher ranks to    *)
(* plain ranks.                                                            *)

\* len(self.eng_freq_sorted) = len(self.cipher_freq)
NUM_LETTERS == 26

NewCrypto == [solved_letters |-> <<>>]

\* one pair is cracked every 15 frames after frame 60
SolveIdx(idx) ==
    LET raw == IF idx > 60 THEN (idx - 60) \div 15 ELSE -1
    IN  IF raw >= NUM_LETTERS THEN NUM_LETTERS - 1 ELSE raw

\* the drawing of CryptoSim.render for a given solved_letters
CryptoImage(solved, idx) ==
    [ gold   |-> SolveIdx(idx),
      labels |-> [r \in 1..NUM_LETTERS |->
                    IF r <= SolveIdx(idx) + 1
                    THEN (IF r \in DOMAIN solved THEN <<"plain", solved[r]>> ELSE <<"?">>)
                    ELSE <<"cipher", r>>],
      ticker |-> DOMAIN solved ]

\* a render that only draws
CryptoRenderPure(s, idx) ==
    [state |-> s, image |-> CryptoImage(s.solved_letters, idx)]

\* CryptoSim.render: extend solved_letters up to solve_idx, then draw
CryptoRender(s, idx) ==
    LET solved == [r \in DOMAIN s.solved_letters \cup 1..(SolveIdx(idx) + 1) |-> r]
    IN  [ state |-> [s EXCEPT !.solved_letters = solved],
          image |-> CryptoImage(solved, idx) ]

RenderOnly == {"logic_garden_v18", "logic_garden_v20", "logic_garden_v25"}

\* no comparison in hand
NoReplay == [idx |-> -1, from |-> None, first |-> None, second |-> None, again |-> None]

\* sim.render(i, ax) of the three scripts; seed stands for the state of
\* the unseeded generator
Render(s, idx, seed) ==
    CASE script = "logic_garden_v18" -> [state |-> NucleusTimeline(s, idx), image |-> None]
      [] script = "logic_garden_v20" -> TellerRender(s, idx, seed)
      [] script = "logic_garden_v25" -> CryptoRender(s, idx)

\* one pass of `for i in range(TOTAL_FRAMES)`
RenderFrame ==
    /\ script \in RenderOnly /\ pc = "loop" /\ i < NURSERY_TOTAL_FRAMES
    /\ outDir' = Created(outDir)
    /\ \E seed \in 0..(RngSeeds - 1) : sim' = Render(sim, i, seed).state
    /\ replay' = NoReplay
    /\ \E ok \in BOOLEAN :
         IF ok THEN /\ writes' = Saved(i, NoGrain)
                    /\ i' = i + 1
                    /\ console' = IF i % 30 = 0 THEN console \cup {"progress"} ELSE console
                    /\ UNCHANGED <<pc, exitCode, failed>>
               ELSE /\ Crash({i})
                    /\ UNCHANGED <<i, writes>>
    /\ UNCHANGED <<script, calls, frame_idx, encoderCalls, envVars, simVars, pool>>

\* the loop is exhausted and the module ends
RenderFinish ==
    /\ script \in RenderOnly /\ pc = "loop" /\ i = NURSERY_TOTAL_FRAMES
    /\ pc' = "done" /\ exitCode' = 0
    /\ UNCHANGED <<script, outDir, calls, objVars, i, frame_idx, writes, console, encoderCalls,
                   failed, envVars, simVars, pool>>

-----------------------------------------------------------------------------
(* logic_garden_v3: GaltonSim.  A ball is kept by its vertical motion: the  *)
(* fall below the spawn height in units of gravity * dt * dt (0.0245), and  *)
(* the downward speed in units of gravity * dt.  Its x, vx and colour only  *)
(* decide which peg it meets, which is an input of the step.                *)

\* FRAMES = 450 in the source; scaled down
GaltonFrames == 5
\* GaltonSim(n_balls=400); scaled down
GaltonBalls == 4
\* self.spawn_rate, balls per frame
SPAWN_RATE == 2
\* the fall beyond which y < floor_y: (7.0 + 5.0) / 0.0245 = 489.8, so 489
\* in the source; scaled down
FLOOR_DROP == 3
\* the fall that takes a ball below the lowest row of pegs (453 in the
\* source); scaled down
PEG_BOTTOM == 1

\* landed is the fall at which the ball first went below the floor, -1
\* before that
NewBall == [fallen |-> 0, vy |-> 0, landed |-> -1]

\* bins lists the balls recorded, each by its place in the list of balls
NewGalton == [balls_spawned |-> 0, balls |-> <<>>, bins |-> <<>>]

\* GaltonSim.update, part 1: spawn while fewer than n_balls_total were
\* spawned
GaltonSpawn(s) ==
    IF s.balls_spawned < GaltonBalls
    THEN [s EXCEPT !.balls_spawned = @ + SPAWN_RATE,
                   !.balls = @ \o [k \in 1..SPAWN_RATE |-> NewBall]]
    ELSE s

\* what the peg test finds for a ball: no peg within reach, or a peg whose
\* normal points up or down
PegTests == {"miss", "up", "down"}

\* one pass of `for b in self.balls`: gravity, the peg bounce
\* vy = abs(vy) * 0.5 * ny, and the floor test, which sets both speeds to 0
MoveBall(b, peg) ==
    LET v1     == b.vy + 1
        y1     == b.fallen + v1
        struck == peg # "miss" /\ y1 >= 1 /\ y1 <= PEG_BOTTOM
        half   == (IF v1 < 0 THEN -v1 ELSE v1) \div 2
        v2     == IF struck THEN (IF peg = "up" THEN -half ELSE half) ELSE v1
        below  == y1 > FLOOR_DROP
    IN  [ fallen |-> y1,
          vy     |-> IF below THEN 0 ELSE v2,
          landed |-> IF below /\ b.landed = -1 THEN y1 ELSE b.landed ]

\* GaltonSim.update, part 2: every ball of the list is moved, a ball found
\* below the floor is appended to bins, and the list is rebuilt from the
\* first five fields of every ball, frozen or not
GaltonMove(s, pegs) ==
    LET moved == [k \in DOMAIN s.balls |-> MoveBall(s.balls[k], pegs[k])]
        Below(k) == moved[k].fallen > FLOOR_DROP
    IN  [s EXCEPT !.balls = moved,
                  !.bins = @ \o SelectSeq([k \in DOMAIN s.balls |-> k], Below)]

\* sim.update()
GaltonUpdate ==
    /\ script = "logic_garden_v3" /\ pc = "update"
    /\ LET spawned == GaltonSpawn(sim)
       IN  \E pegs \in [DOMAIN spawned.balls -> PegTests] :
              sim' = GaltonMove(spawned, pegs)
    /\ calls' = <<"update">>
    /\ pc' = "render"
    /\ UNCHANGED <<script, outDir, replay, i, frame_idx, writes, console, exitCode, encoderCalls,
                   failed, envVars, simVars, pool>>

\* sim.render(i), the progress print and the end of the pass
GaltonRender ==
    /\ script = "logic_garden_v3" /\ pc = "render"
    /\ calls' = Append(calls, "render")
    /\ outDir' = Created(outDir)
    /\ \E ok \in BOOLEAN :
         IF ok
         THEN /\ writes' = Saved(i, NoGrain)
              /\ console' = IF i % 20 = 0 THEN console \cup {"progress"} ELSE console
              /\ IF i + 1 = GaltonFrames
                 THEN pc' = "done" /\ exitCode' = 0 /\ i' = i
                 ELSE pc' = "update" /\ exitCode' = exitCode /\ i' = i + 1
              /\ UNCHANGED failed
         ELSE /\ Crash({i})
              /\ UNCHANGED <<i, writes>>
    /\ UNCHANGED <<script, objVars, frame_idx, encoderCalls, envVars, simVars, pool>>

-----------------------------------------------------------------------------
(* logic_garden_v4: the Game of Life grid                                  *)

\* ROWS, COLS = 30, 50 in the source; scaled down
LIFE_ROWS == 3
LIFE_COLS == 3
\* at most this many cells of the seeded soup are alive
MaxLive == 3
\* FRAMES = 400 in the source; scaled down
LifeFrames == 3

LifeCells == (0..(LIFE_ROWS - 1)) \X (0..(LIFE_COLS - 1))

RECURSIVE LiveSets(_)
LiveSets(k) ==
    IF k = 0 THEN {{}}
    ELSE LET prev == LiveSets(k - 1)
         IN  prev \cup {w \cup {c} : w \in prev, c \in LifeCells}

\* init_grid for one outcome of the soup
init_grid(live) ==
    [ grid |-> [c \in LifeCells |-> IF c \in live THEN 1 ELSE 0],
      ages |-> [c \in LifeCells |-> 0] ]

\* np.sum(grid[r_min:r_max, c_min:c_max]) - grid[r, c]: the window is cut
\* off at the border of the grid
LifeNeighbors(grid, r, c) ==
    LET r_min == IF r - 1 > 0 THEN r - 1 ELSE 0
        r_max == IF r + 2 < LIFE_ROWS THEN r + 2 ELSE LIFE_ROWS
        c_min == IF c - 1 > 0 THEN c - 1 ELSE 0
        c_max == IF c + 2 < LIFE_COLS THEN c + 2 ELSE LIFE_COLS
    IN  Cardinality({n \in (r_min..(r_max - 1)) \X (c_min..(c_max - 1)) : grid[n] = 1})
          - grid[<<r, c>>]

update_grid(s) ==
    LET Lives(c) == IF s.grid[c] = 1
                    THEN ~(LifeNeighbors(s.grid, c[1], c[2]) < 2
                           \/ LifeNeighbors(s.grid, c[1], c[2]) > 3)
                    ELSE LifeNeighbors(s.grid, c[1], c[2]) = 3
    IN  [ grid |-> [c \in LifeCells |-> IF Lives(c) THEN 1 ELSE 0],
          ages |-> [c \in LifeCells |->
                      IF Lives(c) /\ s.grid[c] = 1 THEN s.ages[c] + 1 ELSE 0] ]

\* render_life_frame(grid, ages, i)
LifeRender ==
    /\ script = "logic_garden_v4" /\ pc = "render"
    /\ calls' = <<"render">>
    /\ outDir' = Created(outDir)
    /\ \E ok \in BOOLEAN :
         IF ok THEN /\ writes' = Saved(i, NoGrain)
                    /\ pc' = "update"
                    /\ UNCHANGED <<console, exitCode, failed>>
               ELSE /\ Crash({i})
                    /\ UNCHANGED writes
    /\ UNCHANGED <<script, objVars, i, frame_idx, encoderCalls, envVars, simVars, pool>>

\* grid, ages = update_grid(grid, ages), the progress print and the end
\* of the pass
LifeUpdate ==
    /\ script = "logic_garden_v4" /\ pc = "update"
    /\ sim' = update_grid(sim)
    /\ calls' = Append(calls, "update")
    /\ console' = IF i % 20 = 0 THEN console \cup {"progress"} ELSE console
    /\ IF i + 1 = LifeFrames
       THEN pc' = "done" /\ exitCode' = 0 /\ i' = i
       ELSE pc' = "render" /\ exitCode' = exitCode /\ i' = i + 1
    /\ UNCHANGED <<script, outDir, replay, frame_idx, writes, encoderCalls, failed,
                   envVars, simVars, pool>>

-----------------------------------------------------------------------------
(* logic_garden_v40: PulsarSim.  The spin angle is kept as the number of   *)
(* spin_rate increments, the signal history as its length.                 *)

\* len(self.signal_history), kept at 100 by update
HISTORY_LEN == 100

NewPulsar == [spin |-> 0, history |-> HISTORY_LEN]

\* PulsarSim.update: spin, append the signal, drop the oldest beyond 100
PulsarSpin(s) ==
    LET grown == s.history + 1
    IN  [spin |-> s.spin + 1, history |-> IF grown > HISTORY_LEN THEN grown - 1 ELSE grown]

\* sig = sim.update(i)
PulsarUpdate ==
    /\ script = "logic_garden_v40" /\ pc = "update"
    /\ sim' = PulsarSpin(sim)
    /\ calls' = <<"update">>
    /\ pc' = "render"
    /\ UNCHANGED <<script, outDir, replay, i, frame_idx, writes, console, exitCode, encoderCalls,
                   failed, envVars, simVars, pool>>

\* sim.render(i, sig, ax): the drawing, os.makedirs(out_dir, exist_ok=True),
\* plt.savefig; then the progress print and the end of the pass
PulsarRender ==
    /\ script = "logic_garden_v40" /\ pc = "render"
    /\ calls' = Append(calls, "render")
    /\ IF Makedirs(outDir, TRUE) # "ok"
       THEN Raise(Makedirs(outDir, TRUE)) /\ UNCHANGED <<outDir, i, writes>>
       ELSE /\ outDir' = Created(outDir)
            /\ \E ok \in BOOLEAN :
                 IF ok
                 THEN /\ writes' = Saved(i, NoGrain)
                      /\ console' = IF i % 30 = 0 THEN console \cup {"progress"} ELSE console
                      /\ IF i + 1 = NURSERY_TOTAL_FRAMES
                         THEN pc' = "done" /\ exitCode' = 0 /\ i' = i
                         ELSE pc' = "update" /\ exitCode' = exitCode /\ i' = i + 1
                      /\ UNCHANGED failed
                 ELSE /\ Crash({i})
                      /\ UNCHANGED <<i, writes>>
    /\ UNCHANGED <<script, objVars, frame_idx, encoderCalls, envVars, simVars, pool>>

-----------------------------------------------------------------------------
(* Rendering one state twice: a test of sim.render on copies of the state  *)
(* the loop has reached, each call with its own draws from the generator.  *)

Deterministic == {"logic_garden_v20", "logic_garden_v25"}

\* first and second start from equal copies of sim, again from the state
\* the first call leaves behind
ReplayRender ==
    /\ script \in Deterministic /\ pc = "loop" /\ i < NURSERY_TOTAL_FRAMES
    /\ replay.idx < i
    /\ \E s1, s2, s3 \in 0..(RngSeeds - 1) :
         replay' = [ idx    |-> i,
                     from   |-> sim,
                     first  |-> Render(sim, i, s1).image,
                     second |-> Render(sim, i, s2).image,
                     again  |-> Render(Render(sim, i, s1).state, i, s3).image ]
    /\ UNCHANGED <<mainVars, outDir, calls, sim, envVars, simVars, pool>>

-----------------------------------------------------------------------------
(* logic_garden_v13: Sorter (merge sort as a generator) and its frame loop *)

\* logic_garden_v13.NUM_BARS (64 in the source)
NUM_BARS == 4
\* the frames held on the shuffled and on the sorted array
CHAOS_HOLD == 30
HARMONY_HOLD == 60

\* np.linspace(0.05, 1.0, NUM_BARS) shuffled: the heights are distinct and
\* are only compared, so each stands as its rank 1..NUM_BARS; the order
\* np.random.shuffle leaves under seed 42 is one of these
Shuffles ==
    {p \in [1..NUM_BARS -> 1..NUM_BARS] :
        \A a, b \in 1..NUM_BARS : a # b => p[a] # p[b]}

\* the three while loops of Sorter.merge: a and b are the positions of the
\* next unread value of L and R, k the next position written; each pass
\* yields a copy of arr before it overwrites arr[k]
RECURSIVE MergeLoop(_, _, _, _, _, _, _)
MergeLoop(arr, L, R, a, b, k, out) ==
    LET yielded == Append(out, [arr |-> arr, active |-> {k}])
    IN  IF a <= Len(L) /\ b <= Len(R)
        THEN IF L[a] <= R[b]
             THEN MergeLoop([arr EXCEPT ![k] = L[a]], L, R, a + 1, b, k + 1, yielded)
             ELSE MergeLoop([arr EXCEPT ![k] = R[b]], L, R, a, b + 1, k + 1, yielded)
        ELSE IF a <= Len(L)
        THEN MergeLoop([arr EXCEPT ![k] = L[a]], L, R, a + 1, b, k + 1, yielded)
        ELSE IF b <= Len(R)
        THEN MergeLoop([arr EXCEPT ![k] = R[b]], L, R, a, b + 1, k + 1, yielded)
        ELSE [arr |-> arr, yields |-> out]

\* the right half copied without its last value
mergeDropTail(arr, left, mid, right) ==
    LET r == MergeLoop(arr, SubSeq(arr, left, mid), SubSeq(arr, mid + 1, right - 1),
                       1, 1, left, <<>>)
    IN  [arr    |-> r.arr,
         yields |-> Append(r.yields, [arr |-> r.arr, active |-> left..right])]

\* the right half copied from one position too far left
mergeOverlap(arr, left, mid, right) ==
    LET r == MergeLoop(arr, SubSeq(arr, left, mid), SubSeq(arr, mid, right - 1),
                       1, 1, left, <<>>)
    IN  [arr    |-> r.arr,
         yields |-> Append(r.yields, [arr |-> r.arr, active |-> left..right])]

\* Sorter.merge (positions counted from 1): the array it leaves and the
\* snapshots it yields, the last one after the section is merged
merge(arr, left, mid, right) ==
    LET r == MergeLoop(arr, SubSeq(arr, left, mid), SubSeq(arr, mid + 1, right),
                       1, 1, left, <<>>)
    IN  [arr    |-> r.arr,
         yields |-> Append(r.yields, [arr |-> r.arr, active |-> left..right])]

\* Sorter.merge_sort: yield from the left half, the right half, the merge
RECURSIVE merge_sort(_, _, _)
merge_sort(arr, left, right) ==
    IF left >= right THEN [arr |-> arr, yields |-> <<>>]
    ELSE LET mid == (left + right) \div 2
             lo  == merge_sort(arr, left, mid)
             hi  == merge_sort(lo.arr, mid + 1, right)
             mg  == merge(hi.arr, left, mid, right)
         IN  [arr |-> mg.arr, yields |-> lo.yields \o hi.yields \o mg.yields]

\* the module's state before the first frame: data as shuffled (initial
\* keeps that order), the generator created and not started, nothing
\* passed to render_frame yet
NewSorter(p) ==
    [initial |-> p, data |-> p, taken |-> 0, shown |-> <<>>, active |-> {},
     hold |-> CHAOS_HOLD]

\* `for _ in range(30): render_frame(data, [], frame_idx)`
SortChaos ==
    /\ script = "logic_garden_v13" /\ pc = "chaos" /\ sim.hold > 0
    /\ outDir' = Created(outDir)
    /\ \E ok \in BOOLEAN :
         IF ok
         THEN /\ writes' = Saved(frame_idx, NoGrain)
              /\ frame_idx' = frame_idx + 1
              /\ sim' = [sim EXCEPT !.shown = sim.data, !.active = {}, !.hold = @ - 1]
              /\ pc' = IF sim.hold = 1 THEN "algo" ELSE "chaos"
              /\ UNCHANGED <<console, exitCode, failed>>
         ELSE /\ Crash({frame_idx})
              /\ sim' = [sim EXCEPT !.shown = sim.data, !.active = {}]
              /\ UNCHANGED <<frame_idx, writes>>
    /\ UNCHANGED <<script, calls, replay, i, encoderCalls, envVars, simVars, pool>>

\* one pass of `for state in algo`: the generator runs to its next yield,
\* writing data in place, and the snapshot is rendered; after the last
\* snapshot the generator returns without another write
SortStep ==
    /\ script = "logic_garden_v13" /\ pc = "algo"
    /\ LET run  == merge_sort(sim.initial, 1, NUM_BARS)
           st   == run.yields[sim.taken + 1]
           last == sim.taken + 1 = Len(run.yields)
           got  == [sim EXCEPT !.data = st.arr, !.taken = @ + 1,
                               !.shown = st.arr, !.active = st.active]
       IN  /\ sim.taken < Len(run.yields)
           /\ outDir' = Created(outDir)
           /\ \E ok \in BOOLEAN :
                IF ok
                THEN /\ writes' = Saved(frame_idx, NoGrain)
                     /\ frame_idx' = frame_idx + 1
                     /\ sim' = IF last THEN [got EXCEPT !.hold = HARMONY_HOLD] ELSE got
                     /\ pc' = IF last THEN "harmony" ELSE "algo"
                     /\ UNCHANGED <<console, exitCode, failed>>
                ELSE /\ Crash({frame_idx})
                     /\ sim' = got
                     /\ UNCHANGED <<frame_idx, writes>>
    /\ UNCHANGED <<script, calls, replay, i, encoderCalls, envVars, simVars, pool>>

\* `for _ in range(60): render_frame(data, [], frame_idx)`
SortHarmony ==
    /\ script = "logic_garden_v13" /\ pc = "harmony" /\ sim.hold > 0
    /\ outDir' = Created(outDir)
    /\ \E ok \in BOOLEAN :
         IF ok
         THEN /\ writes' = Saved(frame_idx, NoGrain)
              /\ frame_idx' = frame_idx + 1
              /\ sim' = [sim EXCEPT !.shown = sim.data, !.active = {}, !.hold = @ - 1]
              /\ UNCHANGED <<pc, console, exitCode, failed>>
         ELSE /\ Crash({frame_idx})
              /\ sim' = [sim EXCEPT !.shown = sim.data, !.active = {}]
              /\ UNCHANGED <<frame_idx, writes>>
    /\ UNCHANGED <<script, calls, replay, i, encoderCalls, envVars, simVars, pool>>

\* print(f"Total Frames: {frame_idx}")
SortFinish ==
    /\ script = "logic_garden_v13" /\ pc = "harmony" /\ sim.hold = 0
    /\ pc' = "done" /\ exitCode' = 0
    /\ console' = console \cup {"total_frames"}
    /\ UNCHANGED <<script, outDir, calls, objVars, i, frame_idx, writes, encoderCalls,
                   failed, envVars, simVars, pool>>

-----------------------------------------------------------------------------
(* logic_garden_v39: SupernovaSim, stepped and then rendered every frame    *)

\* logic_garden_v39.TOTAL_FRAMES = FPS * DURATION
V39_TOTAL_FRAMES == 30 * 20

\* the particles spawned by the bounce
SPAWN_COUNT == 800

\* 3.0 + 0.1 * sin(frame_idx * 0.2) lies in [2.9, 3.1]; radius is kept in
\* millionths, which holds 3.0 * 0.6^k exactly for the k the collapse needs
Breath == {2900000, 3000000, 3100000}

\* how many of the particles the random draws colour SHOCKWAVE
ShockShares == {0, 320, SPAWN_COUNT}

\* SupernovaSim.__init__; trail lists the values self.state has been given,
\* since is the timer at the last of these assignments, drawn and label are what the last render call put on the axes;
\* shock_radius is in tenths, the particles' life in thousandths
NewSupernova ==
    [ state |-> "fusion", radius |-> 3000000, color_core |-> "STAR_CORE", timer |-> 0,
      shock_radius |-> 0,
      particles |-> [shock |-> 0, heavy |-> 0, shock_life |-> 0, heavy_life |-> 0],
      trail |-> <<"fusion">>, since |-> 0, drawn |-> "unset", label |-> "unset" ]

\* self.state = to
Enter(s, to) == [s EXCEPT !.state = to, !.trail = Append(@, to), !.since = s.timer]

\* the nebula branch on the particles: every life is reduced, and those
\* with life > 0 are kept; stay tells whether a life that the decimal
\* arithmetic brings to exactly 0 is left above 0 by the binary rounding
MoveParticles(p, stay) ==
    LET sl   == p.shock_life - 20
        hl   == p.heavy_life - 5
        keep(l) == l > 0 \/ (l = 0 /\ stay)
    IN  [ shock |-> IF keep(sl) THEN p.shock ELSE 0,
          heavy |-> IF keep(hl) THEN p.heavy ELSE 0,
          shock_life |-> sl, heavy_life |-> hl ]

\* the collapse handing over to nebula directly, with no bounce
SupernovaUpdateNoBounce(s, idx, breath, share, stay) ==
    LET t == [s EXCEPT !.timer = @ + 1]
    IN  CASE s.state = "fusion" ->
               LET u == [t EXCEPT !.radius = breath, !.color_core = "STAR_CORE"]
               IN  IF idx > 60 THEN Enter(u, "iron_poison") ELSE u
          [] s.state = "iron_poison" ->
               LET u == [t EXCEPT !.radius = 3000000, !.color_core = "IRON_HEART"]
               IN  IF idx > 90 THEN Enter(u, "collapse") ELSE u
          [] s.state = "collapse" ->
               LET u == [t EXCEPT !.radius = (s.radius * 6) \div 10]
               IN  IF u.radius < 200000
                   THEN [Enter(u, "nebula") EXCEPT !.radius = 100000]
                   ELSE u
          [] s.state = "bounce" ->
               Enter([t EXCEPT !.shock_radius = 2, !.radius = 100000,
                               !.particles = [shock |-> s.particles.shock + share,
                                              heavy |-> s.particles.heavy + SPAWN_COUNT - share,
                                              shock_life |-> 1000, heavy_life |-> 1000]],
                     "nebula")
          [] s.state = "nebula" ->
               [t EXCEPT !.shock_radius = @ + 4,
                         !.particles = MoveParticles(s.particles, stay)]

\* SupernovaSim.update(frame_idx)
SupernovaUpdate(s, idx, breath, share, stay) ==
    LET t == [s EXCEPT !.timer = @ + 1]
    IN  CASE s.state = "fusion" ->
               LET u == [t EXCEPT !.radius = breath, !.color_core = "STAR_CORE"]
               IN  IF idx > 60 THEN Enter(u, "iron_poison") ELSE u
          [] s.state = "iron_poison" ->
               LET u == [t EXCEPT !.radius = 3000000, !.color_core = "IRON_HEART"]
               IN  IF idx > 90 THEN Enter(u, "collapse") ELSE u
          [] s.state = "collapse" ->
               LET u == [t EXCEPT !.radius = (s.radius * 6) \div 10]
               IN  IF u.radius < 200000
                   THEN [Enter(u, "bounce") EXCEPT !.radius = 100000]
                   ELSE u
          [] s.state = "bounce" ->
               Enter([t EXCEPT !.shock_radius = 2, !.radius = 100000,
                               !.particles = [shock |-> s.particles.shock + share,
                                              heavy |-> s.particles.heavy + SPAWN_COUNT - share,
                                              shock_life |-> 1000, heavy_life |-> 1000]],
                     "nebula")
          [] s.state = "nebula" ->
               [t EXCEPT !.shock_radius = @ + 4,
                         !.particles = MoveParticles(s.particles, stay)]

\* the drawing part of SupernovaSim.render: the star and its label in the
\* three states before the explosion, the remnant and its label in nebula
SupernovaDraw(s) ==
    CASE s.state \in {"fusion", "iron_poison", "collapse"} ->
           [s EXCEPT !.drawn = "star",
                     !.label = CASE s.state = "fusion" -> "STATUS: FUSING (H -> He)"
                                 [] s.state = "iron_poison" -> "STATUS: IRON POISONING"
                                 [] OTHER -> "STATUS: GRAVITATIONAL COLLAPSE"]
      [] s.state = "nebula" ->
           [s EXCEPT !.drawn = "remnant",
                     !.label = "STATUS: NUCLEOSYNTHESIS (GOLD CREATED)"]
      [] OTHER -> [s EXCEPT !.drawn = "nothing", !.label = "none"]

\* sim.update(i)
SupernovaStep ==
    /\ script = "logic_garden_v39" /\ pc = "update"
    /\ \E breath \in Breath, share \in ShockShares, stay \in BOOLEAN :
         sim' = SupernovaUpdate(sim, i, breath, share, stay)
    /\ calls' = <<"update">>
    /\ pc' = "render"
    /\ UNCHANGED <<script, outDir, replay, i, frame_idx, writes, console, exitCode, encoderCalls,
                   failed, envVars, simVars, pool>>

\* sim.render(i, ax): the drawing, os.makedirs(out_dir, exist_ok=True),
\* plt.savefig; then the progress print and the end of the pass
SupernovaRender ==
    /\ script = "logic_garden_v39" /\ pc = "render"
    /\ calls' = Append(calls, "render")
    /\ sim' = SupernovaDraw(sim)
    /\ outDir' = Created(outDir)
    /\ \E ok \in BOOLEAN :
         IF ok
         THEN /\ writes' = Saved(i, NoGrain)
              /\ console' = IF i % 30 = 0 THEN console \cup {"progress"} ELSE console
              /\ IF i + 1 = V39_TOTAL_FRAMES
                 THEN pc' = "done" /\ exitCode' = 0 /\ i' = i
                 ELSE pc' = "update" /\ exitCode' = exitCode /\ i' = i + 1
              /\ UNCHANGED failed
         ELSE /\ Crash({i})
              /\ UNCHANGED <<i, writes>>
    /\ UNCHANGED <<script, replay, frame_idx, encoderCalls, envVars, simVars, pool>>

-----------------------------------------------------------------------------
Scripts == {"gravity_well_manifest", "void_tunnel_v3", "gpu_entropic_v3",
            "logic_garden_v12", "logic_garden_v16", "fractals6", "void_safety_protocol",
            "ab_twist_manifest", "logic_garden_v18", "logic_garden_v20", "logic_garden_v25",
            "logic_garden_v3", "logic_garden_v4", "logic_garden_v40", "logic_garden_v13",
            "logic_garden_v39"}

\* scripts that try to import cupy
AccelScripts == {"void_tunnel_v3", "gpu_entropic_v3", "ab_twist_manifest"}

\* scripts that create the output directory once, before the frames; the
\* others create it again for every frame
OncePerRun == {"gravity_well_manifest", "gpu_entropic_v3", "fractals6", "void_safety_protocol"}

Init ==
    /\ script \in Scripts
    /\ pc = CASE script = "logic_garden_v12" -> "render"
              [] script = "logic_garden_v16" -> "next"
              [] script \in RenderOnly -> "loop"
              [] script \in {"logic_garden_v3", "logic_garden_v40", "logic_garden_v39"} -> "update"
              [] script = "logic_garden_v4" -> "render"
              [] script = "logic_garden_v13" -> "chaos"
              [] OTHER -> "start"
    /\ i = 0
    /\ frame_idx = 0
    /\ writes = <<>>
    /\ console = {}
    /\ exitCode = -1
    /\ encoderCalls = 0
    /\ failed = {}
    /\ input \in (IF script = "gravity_well_manifest" THEN {"ok", "missing", "corrupt"} ELSE {"ok"})
    /\ accel \in (IF script \in AccelScripts THEN BOOLEAN ELSE {TRUE})
    /\ vram \in (IF script \in {"void_tunnel_v3", "ab_twist_manifest"} /\ accel
                 THEN BOOLEAN ELSE {accel})
    \* a directory left by an earlier run counts as created once
    /\ outDir \in (IF script \in OncePerRun THEN {0, 1} ELSE {0})
    /\ sim \in CASE script = "logic_garden_v18" -> {NewNucleus}
                  [] script = "logic_garden_v20" -> {NewTeller}
                  [] script = "logic_garden_v25" -> {NewCrypto}
                  [] script = "logic_garden_v3"  -> {NewGalton}
                  [] script = "logic_garden_v4"  -> {init_grid(live) : live \in LiveSets(MaxLive)}
                  [] script = "logic_garden_v40" -> {NewPulsar}
                  [] script = "logic_garden_v13" -> {NewSorter(p) : p \in Shuffles}
                  [] script = "logic_garden_v39" -> {NewSupernova}
                  [] script = "fractals6" -> {NoPixel}
                  [] OTHER -> {None}
    /\ calls = <<>>
    /\ replay = NoReplay
    /\ encoder \in (IF script \in {"gpu_entropic_v3", "void_safety_protocol"} THEN {"ok", "nonzero", "missing_binary"} ELSE {"ok"})
    /\ solver \in (IF script = "logic_garden_v12"
                   THEN {NewSolver(w) : w \in WallSets(MaxWalls)} ELSE {None})
    /\ sieve = (IF script = "logic_garden_v16" THEN NewSieve ELSE None)
    /\ loop = (IF script = "logic_garden_v16" THEN NewLoop ELSE None)
    /\ pool \in (CASE script = "fractals6" ->
                        {NewPool(script, [w \in Workers(script) |-> 0])}
                   [] script = "void_safety_protocol" ->
                        {NewPool(script, sd) : sd \in [Workers(script) -> 0..(RngSeeds - 1)]}
                   [] OTHER -> {None})

Next ==
    \/ WellOpenInput \/ WellFrame \/ WellFinish
    \/ TunnelImport \/ TunnelStep \/ TunnelFinish
    \/ TwistImport \/ TwistStep \/ TwistFinish
    \/ RenderFrame \/ RenderFinish
    \/ GaltonUpdate \/ GaltonRender
    \/ LifeRender \/ LifeUpdate
    \/ PulsarUpdate \/ PulsarRender
    \/ EntropicImport \/ EntropicFrame \/ EntropicEncode
    \/ MazeRender \/ MazeUpdate \/ MazeSave
    \/ SieveNext \/ SieveFrame \/ SieveFinish
    \/ SupernovaStep \/ SupernovaRender
    \/ SortChaos \/ SortStep \/ SortHarmony \/ SortFinish
    \/ PoolStart \/ MainConsume \/ PoolExit \/ CompileVideo
    \/ \E w \in Workers(script) : WorkerTake(w) \/ WorkerRender(w)

vars == <<script, pc, i, frame_idx, writes, console, exitCode, encoderCalls, failed,
          input, accel, encoder, solver, sieve, loop, pool,
          vram, outDir, sim, calls, replay>>

Spec == Init /\ [][Next]_vars

\* the loops of logic_garden_v20 and v25 with the test renders in between
InitReplay == Init /\ script \in Deterministic

NextReplay == RenderFrame \/ RenderFinish \/ ReplayRender

SpecReplay == InitReplay /\ [][NextReplay]_vars

-----------------------------------------------------------------------------
(* Properties                                                              *)

\* scripts whose frames are written by one driving loop in one process
LoopScripts == {"gravity_well_manifest", "void_tunnel_v3", "gpu_entropic_v3",
                "logic_garden_v12", "logic_garden_v16"}

NamesUpTo(n) == {FrameName(script, k) : k \in 0..(n - 1)}

\* the total frame count a script's constants configure
Configured(s) ==
    CASE s = "gravity_well_manifest" -> WellFrames
      [] s = "void_tunnel_v3"        -> TunnelSteps \div FRAMES_SKIP
      [] s = "gpu_entropic_v3"       -> EntropicFrames
      [] s = "logic_garden_v12"      -> V12_MAX_FRAMES
      [] s = "logic_garden_v16"      -> V16_TOTAL_FRAMES

IsPrime(n) == n > 1 /\ \A d \in 2..(n - 1) : n % d # 0

\* frames the sieve animation holds: 2 for the number 1, 20 per prime found
\* by the outer loop, 2 per composite, 2 per late prime, 60 at the end
SieveFrames ==
    2 + 20 * Cardinality({n \in 2..ISqrt(Limit) : IsPrime(n)})
      + 2 * Cardinality({n \in 2..Limit : ~IsPrime(n)})
      + 2 * Cardinality({n \in (ISqrt(Limit) + 1)..Limit : IsPrime(n)})
      + 60

\* the number of frames a complete run really writes
Written(s) ==
    CASE s = "gravity_well_manifest" -> WellFrames
      [] s = "void_tunnel_v3"        -> (TunnelSteps + FRAMES_SKIP - 1) \div FRAMES_SKIP
      [] s = "gpu_entropic_v3"       -> EntropicFrames
      [] s = "logic_garden_v12"      -> IF V12_HARD_STOP + 2 < V12_MAX_FRAMES
                                        THEN V12_HARD_STOP + 2 ELSE V12_MAX_FRAMES
      [] s = "logic_garden_v16"      -> SieveFrames

\* C1 as stated: a completed run of a loop script with configured total
\* frame count N has written exactly the files 0..N-1 (N/skip with skipping).
C1_ConfiguredCountWritten ==
    (script \in LoopScripts /\ pc = "done") => Files = NamesUpTo(Configured(script))

\* C1 amended: the files of a loop script are always numbered 0..k-1 without
\* a gap, and a completed run has written N of them in the plain loops,
\* ceil(STEPS/FRAMES_SKIP) in void_tunnel_v3, hard stop + 2 (502) in
\* logic_garden_v12 and the generator's 332 in logic_garden_v16.
C1_ContiguousFromZero ==
    script \in LoopScripts =>
        /\ \A k \in DOMAIN writes : writes[k].idx = k - 1
        /\ Files = NamesUpTo(Len(writes))
        /\ pc = "done" => Len(writes) = Written(script)

C1_Witness ==
    /\ script = "logic_garden_v12" /\ pc = "done"
    /\ Len(writes) = V12_HARD_STOP + 2
    /\ Len(writes) < V12_MAX_FRAMES

AllTaskFiles == {FrameName(script, pool.tasks[k].frame_num) : k \in DOMAIN pool.tasks}

\* C2: when a worker-pool run completes, the files on disk are exactly one
\* per task of the task list, whatever the completion order.
C2_CompleteRunHasEveryTaskFile ==
    (script \in PoolScripts /\ pc = "done") => Files = AllTaskFiles

\* C3: a frame whose computation or save raised is fatal: the run never
\* goes on to post-processing or to a normal end.
C3_FrameFailureIsFatal ==
    failed # {} => /\ pc \notin {"encode", "done"}
                   /\ encoderCalls = 0
                   /\ exitCode # 0

\* C4: with the input image missing or corrupted, gravity_well_manifest
\* writes no frame, never enters the frame loop, and ends with a message
\* and a non-zero exit status.
C4_BadInputStopsBeforeFrames ==
    (script = "gravity_well_manifest" /\ input # "ok") =>
        /\ writes = <<>>
        /\ pc \in {"start", "exited", "crashed"}
        /\ pc # "start" => /\ exitCode > 0
                           /\ console \cap {"input_not_found", "traceback"} # {}

C4_Witness ==
    /\ script = "gravity_well_manifest" /\ input = "missing"
    /\ pc = "exited" /\ exitCode = 1 /\ writes = <<>>

\* the frames a run with an encoder step is to write
EncoderInput ==
    IF script = "gpu_entropic_v3" THEN NamesUpTo(EntropicFrames) ELSE AllTaskFiles

\* C5: the encoder subprocess has been invoked only if every frame of the
\* run is on disk.
C5_EncoderAfterAllFrames ==
    encoderCalls > 0 => Files = EncoderInput

\* the number a run of decimal digits denotes
RECURSIVE ParseDec(_)
ParseDec(s) == IF Len(s) = 0 THEN 0
               ELSE 10 * ParseDec(SubSeq(s, 1, Len(s) - 1)) + s[Len(s)]

\* C6: the suffix of every written file is its frame index in exactly four
\* digits, and no two saves of a run go to the same file name.
C6_SuffixIsIndexAndUnique ==
    /\ \A k \in DOMAIN writes :
          /\ Len(writes[k].name.suffix) = 4
          /\ ParseDec(writes[k].name.suffix) = writes[k].idx
    \* as many distinct names as saves
    /\ Cardinality(Files) = Len(writes)
    /\ Len(Fmt04d(FRAMES - 1)) = 4
    /\ ParseDec(Fmt04d(FRAMES - 1)) = FRAMES - 1

C6_Witness ==
    /\ Len(writes) >= 2
    /\ writes[2].name.suffix = <<0, 0, 0, 1>>

C7_Frozen == (script = "logic_garden_v12" /\ solver.finished) => solver' = solver

AllExecutedOnce == \A k \in DOMAIN pool.executed : pool.executed[k] = 1

\* C8 as stated: a pool that has stopped has executed every task of the
\* list exactly once.
C8_PoolRunsWholeList ==
    (script \in PoolScripts /\ ~pool.alive) => AllExecutedOnce

\* C8 amended: no task is executed twice; every task has been executed
\* once when the pool is left normally; only an exception re-raised in the
\* main process of fractals6 stops the pool with tasks left.
C8_AtMostOnceAndAllUnlessRaised ==
    script \in PoolScripts =>
        /\ \A k \in DOMAIN pool.executed : pool.executed[k] <= 1
        /\ (~pool.alive /\ ~AllExecutedOnce) =>
              /\ script = "fractals6" /\ pc = "crashed"
              /\ \E k \in 1..pool.consumed : pool.results[k].kind = "exception"

C8_Witness ==
    /\ script = "fractals6" /\ pc = "crashed" /\ ~pool.alive
    /\ \E k \in DOMAIN pool.executed : pool.executed[k] = 0

\* C9 as stated: a frame is a function of its task tuple and the constants
\* alone.  The grain is computed from the configuration, which is the same
\* in every tuple, so all frames of a run would carry the same grain.
C9_OutputFromTupleAlone ==
    script \in PoolScripts =>
        \A j, k \in DOMAIN writes : writes[j].grain = writes[k].grain

\* one step of a pool script touches only the stepping worker's own state
C9_Step ==
    script \in PoolScripts =>
        /\ \A w \in Workers(script) :
              pool'.rng[w] # pool.rng[w] => (pool.busy[w] # 0 /\ pool'.busy[w] = 0)
        /\ Len(writes') > Len(writes) =>
              \E w \in Workers(script) :
                 /\ pool.busy[w] # 0 /\ pool'.busy[w] = 0
                 /\ writes'[Len(writes')].idx = pool.tasks[pool.busy[w]].frame_num
                 /\ writes'[Len(writes')].grain =
                       (IF script = "fractals6" THEN NoGrain ELSE pool.rng[w])

\* C9 amended: a frame depends on its task tuple, the constants and the
\* private generator state of the worker process that renders it; that
\* state changes only when its own process runs a task.
C9_OnlyOwnProcessState == [][C9_Step]_vars

C9_Witness ==
    /\ script = "void_safety_protocol"
    /\ \E j, k \in DOMAIN writes : writes[j].grain # writes[k].grain

\* C10: the encoder runs at most once, and once it has failed the failure
\* is on the console.
C10_EncoderFailureReportedNoRetry ==
    /\ encoderCalls <= 1
    /\ (encoderCalls > 0 /\ encoder # "ok") =>
          console \cap {"ffmpeg_failed", "traceback"} # {}

C10_Witness ==
    /\ script = "void_safety_protocol" /\ encoder = "nonzero"
    /\ encoderCalls = 1 /\ "ffmpeg_failed" \in console

\* scripts with an alternate compute path for a missing accelerator
FallbackScripts == {"void_tunnel_v3", "ab_twist_manifest"}

\* C11 as stated: whichever script looks for the accelerator and does not
\* find it prints a notice and goes on to render; nothing but a failed
\* frame stops it.
C11_MissingAccelFallsBack ==
    (script \in AccelScripts /\ ~accel /\ pc # "start") =>
        /\ "cpu_mode_notice" \in console
        /\ pc = "crashed" => failed # {}

\* C11 amended: void_tunnel_v3 and ab_twist_manifest print the notice and
\* run their frame loop on the CPU path, ending with every exported frame
\* written unless a frame fails; gpu_entropic_v3 has no other path and ends
\* with ImportError before any frame, without a notice.
C11_FallbackWhereCpuPathExists ==
    (script \in AccelScripts /\ ~accel /\ pc # "start") =>
        IF script \in FallbackScripts
        THEN /\ "cpu_mode_notice" \in console
             /\ pc = "crashed" => failed # {}
             /\ pc = "done" =>
                   Len(writes) = ((IF script = "void_tunnel_v3" THEN TunnelSteps
                                   ELSE TwistSteps) + FRAMES_SKIP - 1) \div FRAMES_SKIP
        ELSE /\ pc = "crashed" /\ exitCode = 1
             /\ writes = <<>>
             /\ "cpu_mode_notice" \notin console

C11_Witness ==
    /\ script \in FallbackScripts /\ ~accel /\ pc = "done"
    /\ "cpu_mode_notice" \in console
    /\ Len(writes) > 1

\* C12: export_frame raises for no state the stepping reaches: nothing but
\* a save that fails (an input/output fault) ends the frame loop of
\* void_tunnel_v3 with an exception.
C12_RenderRaisesForNoState ==
    (script = "void_tunnel_v3" /\ pc = "crashed") => failed # {}

\* the simulation object as its constructor leaves it
Constructed(s) ==
    CASE s = "logic_garden_v18" -> NewNucleus
      [] s = "logic_garden_v20" -> NewTeller
      [] s = "logic_garden_v25" -> NewCrypto

\* render calls made so far by the loop of a render-only script
RenderCalls == Len(writes) + Cardinality(failed)

\* C13 as stated: a render call does not change the simulation state it
\* is given; where the loop calls nothing but render, the state stays as
\* constructed.
C13_RenderLeavesState ==
    script \in RenderOnly => sim = Constructed(script)

\* C13 amended: in logic_garden_v18, v20 and v25 render is the call that
\* advances the state, creates the directory and writes the file: after n
\* render calls the directory exists, every call that did not fail has left
\* its file, and the state is the timeline's state for frame n - 1.
C13_RenderAdvancesState ==
    script \in RenderOnly =>
        LET n == RenderCalls
        IN  /\ outDir = (IF n < 2 THEN n ELSE 2)
            /\ Len(writes) = i
            /\ script = "logic_garden_v18" =>
                  /\ sim.stage = (IF n > 100 THEN "U-239" ELSE "U-238")
                  /\ sim.shakes = (IF n <= 100 THEN 0 ELSE IF n <= 220 THEN n - 100 ELSE 120)
                  /\ Len(sim.betas) = (IF n <= 220 THEN 0 ELSE IF n <= 380 THEN 1 ELSE 2)
                  /\ n > 0 => sim.label # "unset"
            /\ script = "logic_garden_v20" =>
                  /\ n <= 61 => sim = NewTeller
                  /\ n > 61 => sim.rad_fill > 0
                  /\ n > 181 => sim.rad_fill = ONE /\ sim.compression > 0
                  /\ n > 361 => sim.compression = ONE /\ sim.ignition > 0
            /\ script = "logic_garden_v25" =>
                  DOMAIN sim.solved_letters = 1..(SolveIdx(n - 1) + 1)

C13_Witness ==
    /\ script = "logic_garden_v25" /\ pc = "loop" /\ i = 100
    /\ DOMAIN sim.solved_letters = 1..3
    /\ sim # NewCrypto

\* the frames for which render draws from the random generator
DrawsRandom(s, idx) ==
    /\ script = "logic_garden_v20"
    /\ TellerUpdate(s, idx).rad_fill > 0
    /\ 10 * idx < 4 * NURSERY_TOTAL_FRAMES

StepAndRender == {"logic_garden_v3", "logic_garden_v4", "logic_garden_v12", "logic_garden_v40",
                  "logic_garden_v39"}

IsPrefix(p, s) == Len(p) <= Len(s) /\ SubSeq(s, 1, Len(p)) = p

\* C15 as stated: the calls of one pass of the loop are the Stepper, then
\* the Renderer.
C15_StepperThenRenderer ==
    script \in StepAndRender => IsPrefix(calls, <<"update", "render">>)

\* the calls of one pass of each loop, in the order of the source
CallOrder(s) ==
    CASE s = "logic_garden_v3"  -> <<"update", "render">>
      [] s = "logic_garden_v4"  -> <<"render", "update">>
      [] s = "logic_garden_v12" -> <<"render", "update", "update">>
      [] s = "logic_garden_v40" -> <<"update", "render">>
      [] s = "logic_garden_v39" -> <<"update", "render">>

\* C15 amended: every pass calls both, in an order fixed per script:
\* logic_garden_v3 and v40 step and then render, logic_garden_v4 renders
\* and then steps, logic_garden_v12 renders and then steps twice.
C15_OrderFixedPerScript ==
    script \in StepAndRender =>
        /\ IsPrefix(calls, CallOrder(script))
        /\ pc = "done" => calls = CallOrder(script)

C15_Witness ==
    /\ script = "logic_garden_v4" /\ i > 0
    /\ calls = <<"render", "update">>

\* C16: the directory creation of a script, performed again on a directory
\* that exists (left by an earlier run, or made for an earlier frame),
\* never raises FileExistsError, and every frame is saved into an existing
\* directory.
C16_CreationIdempotent ==
    /\ "FileExistsError" \notin console
    /\ Len(writes) > 0 => outDir >= 1

C16_Witness ==
    /\ script = "fractals6" /\ outDir = 2
    /\ pc = "done" /\ Len(writes) = FractalFrames

Adjacent(a, b) ==
    \/ a[1] = b[1] /\ (a[2] = b[2] + 1 \/ b[2] = a[2] + 1)
    \/ a[2] = b[2] /\ (a[1] = b[1] + 1 \/ b[1] = a[1] + 1)

\* the number of moves of a shortest walk from START_POS to END_POS over
\* open cells, found by growing the set of reached cells one move at a
\* time; -1 when END_POS is cut off
RECURSIVE Flood(_, _, _)
Flood(grid, reached, n) ==
    IF END_POS \in reached THEN n
    ELSE LET next == reached \cup {c \in Cells : /\ grid[c] = 0
                                                 /\ \E d \in reached : Adjacent(c, d)}
         IN  IF next = reached THEN -1 ELSE Flood(grid, next, n + 1)

\* C17: when the search has finished by taking END_POS off the queue, the
\* path runs from START_POS to END_POS over open cells of the grid, each
\* move goes to one of the four neighbours, and no walk is shorter.
C17_PathIsShortest ==
    (script = "logic_garden_v12" /\ solver.finished /\ solver.path # <<>>) =>
        LET p == solver.path
        IN  /\ p[1] = START_POS /\ p[Len(p)] = END_POS
            /\ \A k \in 1..Len(p) : p[k] \in Cells /\ solver.grid[p[k]] = 0
            /\ \A k \in 1..(Len(p) - 1) : Adjacent(p[k], p[k + 1])
            /\ Len(p) - 1 = Flood(solver.grid, {START_POS}, 0)

C17_Witness ==
    /\ script = "logic_garden_v12" /\ solver.finished
    /\ solver.grid[<<2, 1>>] = 1
    /\ Len(solver.path) = 5

\* C18: once run_algorithm has yielded its last step, every n in 2..limit
\* has status 1 exactly when it is prime and status 2 exactly when it is
\* composite, 1 has status 2, and no number is left at status 0.
C18_SieveClassifies ==
    (script = "logic_garden_v16" /\ sieve.at.loc = "exhausted") =>
        /\ \A n \in 2..Limit : (sieve.status[n] = 1) <=> IsPrime(n)
        /\ \A n \in 2..Limit : (sieve.status[n] = 2) <=> ~IsPrime(n)
        /\ sieve.status[1] = 2
        /\ \A n \in 1..Limit : sieve.status[n] # 0

C18_Witness ==
    /\ script = "logic_garden_v16" /\ sieve.at.loc = "exhausted"
    /\ loop.step.action = "finished"
    /\ sieve.status[97] = 1 /\ sieve.status[91] = 2

\* the two arrays hold the same heights, each as often
SameHeights(a, b) ==
    /\ Len(a) = Len(b)
    /\ \A v \in 1..NUM_BARS :
          Cardinality({k \in DOMAIN a : a[k] = v}) = Cardinality({k \in DOMAIN b : b[k] = v})

Ascending(a) == \A k \in 1..(Len(a) - 1) : a[k] <= a[k + 1]

\* the generator of logic_garden_v13 has been run to exhaustion
SortExhausted == script = "logic_garden_v13" /\ pc \in {"harmony", "done"}

\* C19: once the merge-sort generator is exhausted, data is in ascending
\* order and holds the heights of the initial shuffle, and the frames of
\* the final hold show data in that order.
C19_ExhaustedIsSorted ==
    SortExhausted =>
        /\ Ascending(sim.data)
        /\ SameHeights(sim.data, sim.initial)
        /\ sim.hold < HARMONY_HOLD => (sim.shown = sim.data /\ Ascending(sim.shown))

C19_Witness ==
    /\ script = "logic_garden_v13" /\ pc = "done"
    /\ sim.initial[1] > sim.initial[2]
    /\ ~Ascending(sim.initial)
    /\ sim.shown = sim.data
    /\ Len(writes) > CHAOS_HOLD + HARMONY_HOLD

\* C20 as stated: whatever array has been passed to render_frame holds the
\* initial heights, none twice and none missing.
C20_EveryFrameIsPermutation ==
    (script = "logic_garden_v13" /\ sim.shown # <<>>) =>
        SameHeights(sim.shown, sim.initial)

\* C20 amended: every rendered array has NUM_BARS bars, each of a height of
\* the initial shuffle; the hold frames and the snapshot that closes a
\* merge (the one whose active range is the whole merged section) hold
\* every initial height once, while a snapshot taken inside a merge, after
\* a position has been overwritten, may show a height twice and miss
\* another.
C20_ClosingSnapshotsArePermutations ==
    (script = "logic_garden_v13" /\ sim.shown # <<>>) =>
        /\ Len(sim.shown) = NUM_BARS
        /\ \A k \in DOMAIN sim.shown : \E j \in DOMAIN sim.initial : sim.shown[k] = sim.initial[j]
        /\ Cardinality(sim.active) # 1 => SameHeights(sim.shown, sim.initial)

C20_Witness ==
    /\ script = "logic_garden_v13" /\ pc = "algo"
    /\ Cardinality(sim.active) = 1
    /\ ~SameHeights(sim.shown, sim.initial)
    /\ Len(writes) = CHAOS_HOLD + sim.taken

SupernovaOrder == <<"fusion", "iron_poison", "collapse", "bounce", "nebula">>

\* C21: the values given to the supernova's state are, in this order and
\* each once, fusion, iron_poison, collapse, bounce, nebula; bounce is left
\* by the first update that finds it, the one that spawns the 800
\* particles; nebula holds to the end of the run, which reaches it.
C21_StatesInOrderOnce ==
    script = "logic_garden_v39" =>
        /\ IsPrefix(sim.trail, SupernovaOrder)
        /\ sim.state = sim.trail[Len(sim.trail)]
        /\ sim.state = "bounce" => sim.timer = sim.since
        /\ sim.state = "bounce" =>
              sim.particles.shock + sim.particles.heavy = 0
        /\ (sim.state = "nebula" /\ sim.shock_radius = 2) =>
              sim.particles.shock + sim.particles.heavy = SPAWN_COUNT
        /\ sim.state = "nebula" <=> sim.shock_radius > 0
        /\ pc = "done" => sim.trail = SupernovaOrder

C21_Witness ==
    /\ script = "logic_garden_v39" /\ pc = "done"
    /\ sim.trail = SupernovaOrder
    /\ sim.timer = V39_TOTAL_FRAMES

\* C22: whatever the supernova's state when render is called, the frame
\* shows the star or the remnant, and a status label.
C22_EveryFrameDrawsSomething ==
    (script = "logic_garden_v39" /\ sim.drawn # "unset") =>
        /\ sim.drawn \in {"star", "remnant"}
        /\ sim.label # "none"

\* C23: a Galton ball that has gone below the floor keeps its position
\* from then on and is in bins exactly once, so bins never has more
\* entries than balls were spawned.
C23_FrozenBallsStay ==
    script = "logic_garden_v3" =>
        /\ \A k \in DOMAIN sim.balls :
              sim.balls[k].landed # -1 =>
                 /\ sim.balls[k].fallen = sim.balls[k].landed
                 /\ Cardinality({j \in DOMAIN sim.bins : sim.bins[j] = k}) = 1
        /\ Len(sim.bins) <= sim.balls_spawned

\* the live cells among the eight neighbours of (r, c) on a grid whose
\* opposite edges are joined
WrapNeighbors(grid, r, c) ==
    Cardinality({d \in ({-1, 0, 1} \X {-1, 0, 1}) \ {<<0, 0>>} :
                    grid[<<(r + d[1] + LIFE_ROWS) % LIFE_ROWS,
                           (c + d[2] + LIFE_COLS) % LIFE_COLS>>] = 1})

\* C24: the neighbour count update_grid takes for a cell of the grid it is
\* given is the count over the eight neighbours with wrap-around, the cells
\* of the opposite edge included for a cell on an edge.
C24_NeighboursWrapAround ==
    script = "logic_garden_v4" =>
        \A cell \in LifeCells :
           LifeNeighbors(sim.grid, cell[1], cell[2]) = WrapNeighbors(sim.grid, cell[1], cell[2])

\* C25: a pixel of a fractals6 frame whose orbit has not diverged after
\* MAX_ITER iterations is coloured black, (0, 0, 0).
C25_StablePointsBlack ==
    (script = "fractals6" /\ sim.div_time # -1 /\ sim.stable) =>
        sim.rgb = <<0, 0, 0>>

====
